---- MODULE Spec2Model ----
(***************************************************************************)
(* The %%fortran cell magic and the %f2py_help line magic of               *)
(* fortranmagic.py (class FortranMagics), as a state machine.              *)
(*                                                                         *)
(* One interactive session is modelled.  The user issues magic             *)
(* invocations one after the other (the session is single threaded).  An   *)
(* invocation that reaches f2py2e.main() is split at that call: the step   *)
(* into pc = "driver" is everything the handler does up to the call, and   *)
(* the step out of it is one of the driver's outcomes together with        *)
(* everything the handler does afterwards.  The driver (numpy.f2py) and    *)
(* the loader (imp.load_dynamic) are the environment: their outcome is a   *)
(* nondeterministic choice.                                                *)
(*                                                                         *)
(* Text is modelled as sequences of one-character strings, option values   *)
(* as ASCII strings (str() of a token is then the token itself).  The      *)
(* session starts with an empty cache directory; the driver writes the     *)
(* compiled module exactly when it returns normally.                       *)
(***************************************************************************)
EXTENDS Integers, Sequences, FiniteSets, TLC

\* Number of magic invocations in a session.
MaxInvocations == 2

----------------------------------------------------------------------------
(* Python values and the process environment *)

None == "<None>"

NL == "\n"

\* self._lib_dir, os.path.join(get_ipython_cache_dir(), 'fortran')
LibDir == "~/.ipython/fortran"

\* the working directory of the session
SessionDir == "/home/user"

\* sys.argv of the session
SessionArgv == <<"ipython", "notebook">>

\* sys.version_info[0]
PyMajors == {2, 3}

\* sys.executable and f2py2e.f2py_version
Executable == "/usr/bin/python"
F2pyVersion == "2"

\* suffix of compiled modules
so_ext == ".so"

EmptyMap == [x \in {} |-> x]

Put(f, k, v) == [x \in (DOMAIN f) \cup {k} |-> IF x = k THEN v ELSE f[x]]

Range(s) == {s[i] : i \in DOMAIN s}

Reverse(s) == [i \in 1..Len(s) |-> s[Len(s) + 1 - i]]

----------------------------------------------------------------------------
(* Argument parsing of %%fortran *)

allowed_fcompilers == {"gnu95", "intel"}
allowed_compilers == {"mingw32", "unix"}

BoolOpts == {"noopt", "noarch", "debug"}
StrOpts == {"fcompiler", "compiler", "f90flags", "f77flags", "opt", "arch"}

\* the dests of the parsed namespace, in declaration order
Dests == <<"verbosity", "fcompiler", "compiler", "f90flags", "f77flags",
           "opt", "arch", "noopt", "noarch", "debug", "link">>

\* vars(args).items() iterates in the dictionary's order, which the language
\* leaves open: two orders stand for it.
DictOrders == {Dests, Reverse(Dests)}

DefaultArgs ==
    [verbosity |-> 0, fcompiler |-> None, compiler |-> None,
     f90flags |-> None, f77flags |-> None, opt |-> None, arch |-> None,
     noopt |-> FALSE, noarch |-> FALSE, debug |-> FALSE, link |-> <<>>]

\* one option of an argument line: [opt |-> "--name", val |-> value or None]
Opt(o, v) == [opt |-> o, val |-> v]

\* the argument lines the user may give to %%fortran
FortranLines == {"", "flags", "verbose", "bogus", "badchoice"}

\* the argument lines the user may give to %f2py_help
HelpLines == {"", "both", "resources", "link", "bogus"}

\* arg_split(line): the options of each argument line of the model
Tokens(line) ==
    CASE line = "flags" ->
           <<Opt("-v", None), Opt("--debug", None), Opt("--noopt", None),
             Opt("--opt", "-O2"), Opt("--f90flags", "-g"),
             Opt("--link", "lapack"), Opt("--link", "blas")>>
      [] line = "verbose" ->
           <<Opt("-v", None), Opt("-v", None), Opt("-v", None),
             Opt("--fcompiler", "gnu95")>>
      [] line = "bogus" -> <<Opt("--bogus", None)>>
      [] line = "badchoice" ->
           <<Opt("--noarch", None), Opt("--fcompiler", "nonesuch")>>
      [] line = "both" -> <<Opt("--resources", None), Opt("--fcompiler", None)>>
      [] line = "compiler" -> <<Opt("--compiler", None)>>
      [] line = "resources" -> <<Opt("--resources", None)>>
      [] line = "link" -> <<Opt("--link", "lapack")>>
      [] OTHER -> <<>>

\* the effect of one option on the namespace being parsed
ApplyOption(r, t) ==
    IF ~r.ok THEN r
    ELSE IF t.opt \in {"-v", "--verbosity"}
         THEN [r EXCEPT !.args.verbosity = @ + 1]
    ELSE IF t.opt = "--fcompiler"
         THEN IF t.val \in allowed_fcompilers
              THEN [r EXCEPT !.args.fcompiler = t.val]
              ELSE [r EXCEPT !.ok = FALSE]
    ELSE IF t.opt = "--compiler"
         THEN IF t.val \in allowed_compilers
              THEN [r EXCEPT !.args.compiler = t.val]
              ELSE [r EXCEPT !.ok = FALSE]
    ELSE IF t.opt = "--f90flags" THEN [r EXCEPT !.args.f90flags = t.val]
    ELSE IF t.opt = "--f77flags" THEN [r EXCEPT !.args.f77flags = t.val]
    ELSE IF t.opt = "--opt" THEN [r EXCEPT !.args.opt = t.val]
    ELSE IF t.opt = "--arch" THEN [r EXCEPT !.args.arch = t.val]
    ELSE IF t.opt = "--noopt" THEN [r EXCEPT !.args.noopt = TRUE]
    ELSE IF t.opt = "--noarch" THEN [r EXCEPT !.args.noarch = TRUE]
    ELSE IF t.opt = "--debug" THEN [r EXCEPT !.args.debug = TRUE]
    ELSE IF t.opt = "--link"
         THEN [r EXCEPT !.args.link = Append(@, t.val)]
    ELSE [r EXCEPT !.ok = FALSE]

\* the options are applied from left to right
ParseFrom(r, toks) ==
    LET after[i \in 0..Len(toks)] ==
            IF i = 0 THEN r ELSE ApplyOption(after[i - 1], toks[i])
    IN  after[Len(toks)]

\* a faulty variant: an option the parser does not know is skipped
ParseArgs_Lenient(line) ==
    ParseFrom([ok |-> TRUE, args |-> DefaultArgs],
              SelectSeq(Tokens(line), LAMBDA t :
                  /\ t.opt \in {"-v", "--verbosity", "--fcompiler", "--compiler",
                                "--f90flags", "--f77flags", "--opt", "--arch",
                                "--noopt", "--noarch", "--debug", "--link"}
                  /\ (t.opt = "--fcompiler" => t.val \in allowed_fcompilers)
                  /\ (t.opt = "--compiler" => t.val \in allowed_compilers)))

\* [ok |-> FALSE, ...] stands for the UsageError the parser raises
\* the parser's result for each line of the model
Parsed ==
    [line \in FortranLines |->
        ParseFrom([ok |-> TRUE, args |-> DefaultArgs], Tokens(line))]

\* magic_arguments.parse_argstring(self.fortran, line)
ParseArgs(line) == Parsed[line]

----------------------------------------------------------------------------
(* Argument translation *)

\* v is True
IsTrue(args, k) == k \in BoolOpts /\ args[k] = TRUE

\* isinstance(v, basestring)
IsString(args, k) == k \in StrOpts /\ args[k] # None

BoolToken(k) == <<"--", k>>
KwToken(k, v) == <<"--", k, "=", v>>
LinkToken(r) == <<"--link-", r>>

\* a faulty variant: the string options are put before the boolean flags and the
\* linked resources are left out
F2pyArgs_Mixed(args, ord) ==
    LET bs == SelectSeq(ord, LAMBDA k : IsTrue(args, k))
        ks == SelectSeq(ord, LAMBDA k : IsString(args, k))
    IN  [i \in 1..Len(ks) |-> KwToken(ks[i], args[ks[i]])]
        \o [i \in 1..Len(bs) |-> BoolToken(bs[i])]

\* f2py_args of FortranMagics.fortran; ord is the order of vars(args).items()
F2pyArgs(args, ord) ==
    LET bs == SelectSeq(ord, LAMBDA k : IsTrue(args, k))
        ks == SelectSeq(ord, LAMBDA k : IsString(args, k))
    IN  [i \in 1..Len(bs) |-> BoolToken(bs[i])]
        \o [i \in 1..Len(ks) |-> KwToken(ks[i], args[ks[i]])]
        \o (IF args.link # <<>>
            THEN [i \in 1..Len(args.link) |-> LinkToken(args.link[i])]
            ELSE <<>>)

----------------------------------------------------------------------------
(* Fingerprint *)

\* a faulty variant: a newline is appended to every cell
Normalize_Always(cell) == Append(cell, NL)

\* code = cell if cell.endswith('\n') else cell+'\n'
Normalize(cell) ==
    IF Len(cell) > 0 /\ cell[Len(cell)] = NL THEN cell ELSE Append(cell, NL)

\* key = code, sys.version_info, sys.executable, f2py2e.f2py_version
Key(code, py) == <<code, py, Executable, F2pyVersion>>

CharCode(c) == CASE c = "a" -> 1 [] c = "b" -> 2 [] c = NL -> 3 [] OTHER -> 4

\* str(key) as a sequence of character codes
StrKey(key) ==
    [i \in 1..Len(key[1]) |-> CharCode(key[1][i])] \o <<4, key[2], 1, 1>>

\* hashlib.md5(...).hexdigest(): a digest without collisions on the strings
\* of the model (a positional numeral of the character codes)
RECURSIVE Md5(_)
Md5(s) == IF s = <<>> THEN 0 ELSE Md5(SubSeq(s, 1, Len(s) - 1)) * 5 + s[Len(s)]

ModuleName(key) == <<"_fortran_magic_", Md5(StrKey(key))>>

\* os.path.join(self._lib_dir, name)
PathJoin(dir, name) == <<dir, name>>

\* a faulty variant: the key also holds the flags given to the driver
FortranLocals_FlagsInKey(args, cell, ord, py) ==
    LET code == Normalize(cell)
        fa   == F2pyArgs(args, ord)
        key  == <<code, py, Executable, F2pyVersion, fa>>
        name == <<"_fortran_magic_", Md5(StrKey(key)), fa>>
    IN  [f2py_args |-> fa, code |-> code, key |-> key, module_name |-> name,
         module_path |-> PathJoin(LibDir, <<name, so_ext>>),
         f90_file |-> PathJoin(LibDir, <<name, ".f90">>)]

\* a faulty variant: the source is written over the artifact's path
FortranLocals_SamePath(args, cell, ord, py) ==
    LET code == Normalize(cell)
        key  == Key(code, py)
        name == ModuleName(key)
    IN  [f2py_args |-> F2pyArgs(args, ord), code |-> code, key |-> key,
         module_name |-> name,
         module_path |-> PathJoin(LibDir, <<name, so_ext>>),
         f90_file |-> PathJoin(LibDir, <<name, so_ext>>)]

\* the locals FortranMagics.fortran computes before it writes the source
FortranLocals(args, cell, ord, py) ==
    LET code == Normalize(cell)
        key  == Key(code, py)
        name == ModuleName(key)
    IN  [f2py_args |-> F2pyArgs(args, ord), code |-> code, key |-> key,
         module_name |-> name,
         module_path |-> PathJoin(LibDir, <<name, so_ext>>),
         f90_file |-> PathJoin(LibDir, <<name, ".f90">>)]

----------------------------------------------------------------------------
(* _run_f2py and _import_all *)

\* entry of _run_f2py up to the call of f2py2e.main(): the saved values and
\* the values the driver runs with
RunF2pyEnter(argv, cur_argv, cur_cwd) ==
    [old_argv |-> cur_argv, old_cwd |-> cur_cwd,
     sys_argv |-> <<"f2py">> \o argv, cwd |-> LibDir]

\* a faulty variant: the working directory is left where the driver ran
RunF2pyFinally_NoChdir(f) == [sys_argv |-> f.old_argv, cwd |-> LibDir]

\* the finally clause of _run_f2py
RunF2pyFinally(f) == [sys_argv |-> f.old_argv, cwd |-> f.old_cwd]

\* a faulty variant: SystemExit is let through and the captured output is dropped
OnSystemExit_Silent(out) == [output |-> out, raised |-> "SystemExit"]

\* except SystemExit: captured(); raise UsageError(str(e))
OnSystemExit(out) == [output |-> Append(out, "captured"), raised |-> "UsageError"]

\* the output after a normal return of the driver
OnReturn(out, show_captured, verbosity) ==
    IF show_captured \/ verbosity > 2 THEN Append(out, "captured") ELSE out

\* a faulty variant: the fingerprint is recorded whatever the driver's outcome
CodeCacheAfterRun_Always(cache, loc, exit) == Put(cache, loc.key, loc.module_name)

\* self._code_cache[key] = module_name is reached only when _run_f2py returns
CodeCacheAfterRun(cache, loc, exit) ==
    IF exit = "return" THEN Put(cache, loc.key, loc.module_name) ELSE cache

StartsWith(s, p) == Len(s) >= Len(p) /\ SubSeq(s, 1, Len(p)) = p

\* a faulty variant: every name with a leading underscore is skipped
ImportAll_OneUnderscore(module, ns, verbosity) ==
    LET imported == {k \in DOMAIN module : ~StartsWith(k, <<"_">>)}
    IN  [ns |-> [k \in (DOMAIN ns) \cup imported |->
                    IF k \in imported THEN module[k] ELSE ns[k]],
         imported |-> imported,
         printed |-> verbosity > 0 /\ imported # {}]

\* _import_all: the namespace after the pushes, the names pushed, and whether
\* the summary is printed
ImportAll(module, ns, verbosity) ==
    LET imported == {k \in DOMAIN module : ~StartsWith(k, <<"_", "_">>)}
    IN  [ns |-> [k \in (DOMAIN ns) \cup imported |->
                    IF k \in imported THEN module[k] ELSE ns[k]],
         imported |-> imported,
         printed |-> verbosity > 0 /\ imported # {}]

----------------------------------------------------------------------------
(* Argument parsing of %f2py_help *)

DefaultHelpArgs ==
    [resources |-> FALSE, link |-> None, fcompiler |-> FALSE, compiler |-> FALSE]

ApplyHelpOption(r, t) ==
    IF ~r.ok THEN r
    ELSE IF t.opt = "--resources" THEN [r EXCEPT !.args.resources = TRUE]
    ELSE IF t.opt = "--link" THEN [r EXCEPT !.args.link = t.val]
    ELSE IF t.opt = "--fcompiler" THEN [r EXCEPT !.args.fcompiler = TRUE]
    ELSE IF t.opt = "--compiler" THEN [r EXCEPT !.args.compiler = TRUE]
    ELSE [r EXCEPT !.ok = FALSE]

ParseHelpFrom(r, toks) ==
    LET after[i \in 0..Len(toks)] ==
            IF i = 0 THEN r ELSE ApplyHelpOption(after[i - 1], toks[i])
    IN  after[Len(toks)]

\* magic_arguments.parse_argstring(self.f2py_help, line)
ParseHelpArgs(line) ==
    ParseHelpFrom([ok |-> TRUE, args |-> DefaultHelpArgs], Tokens(line))

\* the argument list f2py_help hands to _run_f2py; <<>> when no branch is taken
HelpArgv(a) ==
    IF a.fcompiler THEN <<"-c", "--help-fcompiler">>
    ELSE IF a.compiler THEN <<"-c", "--help-compiler">>
    ELSE IF a.resources THEN <<"--help-link">>
    ELSE IF a.link # None THEN <<"--help-link", a.link>>
    ELSE <<>>

----------------------------------------------------------------------------
(* The inputs of the session *)

\* the cell texts the user may give: a text without a final newline, the
\* same text with one and with two, and another text
Cells == {<<"a">>, <<"a", NL>>, <<"a", NL, NL>>, <<"b", NL>>}

\* names a loaded module may hold
DunderName == <<"_", "_", "n", "_", "_">>
DunderDoc == <<"_", "_", "d", "_", "_">>

\* the public names of the module the driver builds from a source: the
\* sources that hold "a" define f and _g, the others define nothing
PublicNames(code) ==
    IF "a" \in Range(code) THEN {<<"f">>, <<"_", "g">>} ELSE {}

\* the module imp.load_dynamic returns: its __dict__
ModuleDict(name, code) ==
    [k \in {DunderName, DunderDoc} \cup PublicNames(code) |-> <<name, k>>]

----------------------------------------------------------------------------
(* State *)

VARIABLES
    py_major,     \* sys.version_info[0]
    cwd,          \* the process working directory
    sys_argv,     \* sys.argv
    pc,           \* "idle", or "driver" while f2py2e.main() runs
    frame,        \* the locals of the handler that runs or ran last
    code_cache,   \* self._code_cache
    files,        \* the files of the cache directory, path -> content
    user_ns,      \* the user's interactive namespace
    sys_modules,  \* names of the extension modules loaded
    raised,       \* the exception the last invocation ended with, or None
    output,       \* what the current invocation has printed
    driver_exit,  \* how the driver ended in the current invocation
    driver_runs,  \* number of calls of f2py2e.main()
    n_inv,        \* number of invocations so far
    req,          \* the current invocation: kind, line, cell
    prev,         \* the invocation before it: its kind, how the driver ended
    log           \* the fingerprints computed so far, per request

vars == <<py_major, cwd, sys_argv, pc, frame, code_cache, files, user_ns,
          sys_modules, raised, output, driver_exit, driver_runs, n_inv, req,
          prev, log>>

NoLocals ==
    [f2py_args |-> <<>>, code |-> <<>>, key |-> <<>>, module_name |-> <<>>,
     module_path |-> <<>>, f90_file |-> <<>>]

NoFrame ==
    [caller |-> None, args |-> DefaultArgs, argv |-> <<>>,
     show_captured |-> FALSE, verbosity |-> 0, old_argv |-> <<>>,
     old_cwd |-> None, loc |-> NoLocals, module |-> EmptyMap]

NoRequest == [kind |-> None, line |-> "", cell |-> <<>>]

Init ==
    /\ py_major \in PyMajors
    /\ cwd = SessionDir
    /\ sys_argv = SessionArgv
    /\ pc = "idle"
    /\ frame = NoFrame
    /\ code_cache = EmptyMap
    /\ files = EmptyMap
    /\ user_ns = [k \in {DunderName} |-> <<"__main__", k>>]
    /\ sys_modules = {}
    /\ raised = None
    /\ output = <<>>
    /\ driver_exit = "none"
    /\ driver_runs = 0
    /\ n_inv = 0
    /\ req = NoRequest
    /\ prev = [kind |-> None, exit |-> "none"]
    /\ log = {}

\* the user issues a magic: a new invocation begins
Begin(kind, line, cell) ==
    /\ pc = "idle"
    /\ n_inv < MaxInvocations
    /\ n_inv' = n_inv + 1
    /\ prev' = [kind |-> req.kind, exit |-> driver_exit]
    /\ req' = [kind |-> kind, line |-> line, cell |-> cell]
    /\ driver_exit' = "none"

----------------------------------------------------------------------------
(* %%fortran *)

\* parse_argstring raises: nothing else of the handler runs
FortranRejected(line, cell) ==
    /\ Begin("fortran", line, cell)
    /\ ~ParseArgs(line).ok
    /\ raised' = "UsageError"
    /\ output' = <<>>
    /\ frame' = [NoFrame EXCEPT !.caller = "fortran"]
    /\ UNCHANGED <<py_major, cwd, sys_argv, pc, code_cache, files, user_ns,
                   sys_modules, driver_runs, log>>

\* under Python 3 the name basestring is not defined: the comprehension over
\* the string options raises NameError
FortranNameError(line, cell) ==
    /\ Begin("fortran", line, cell)
    /\ ParseArgs(line).ok
    /\ py_major # 2
    /\ raised' = "NameError"
    /\ output' = <<>>
    /\ frame' = [NoFrame EXCEPT !.caller = "fortran", !.args = ParseArgs(line).args]
    /\ UNCHANGED <<py_major, cwd, sys_argv, pc, code_cache, files, user_ns,
                   sys_modules, driver_runs, log>>

\* the handler up to the call of the driver: the flags, the fingerprint, the
\* source file, and the entry of _run_f2py
FortranBuild(line, cell, ord) ==
    /\ Begin("fortran", line, cell)
    /\ ParseArgs(line).ok
    /\ py_major = 2
    /\ LET args == ParseArgs(line).args
           loc  == FortranLocals(args, cell, ord, py_major)
           argv == loc.f2py_args \o <<"-m", loc.module_name, "-c", loc.f90_file>>
           run  == RunF2pyEnter(argv, sys_argv, cwd)
       IN  /\ files' = Put(files, loc.f90_file,
                           [kind |-> "f90", text |-> loc.code, flags |-> <<>>])
           /\ log' = log \cup {[line |-> line, cell |-> cell,
                                module_name |-> loc.module_name,
                                f90_file |-> loc.f90_file,
                                module_path |-> loc.module_path]}
           /\ frame' = [caller |-> "fortran", args |-> args, argv |-> argv,
                        show_captured |-> FALSE, verbosity |-> args.verbosity,
                        old_argv |-> run.old_argv, old_cwd |-> run.old_cwd,
                        loc |-> loc, module |-> EmptyMap]
           /\ sys_argv' = run.sys_argv
           /\ cwd' = run.cwd
           /\ output' = IF args.verbosity > 1 THEN <<"running">> ELSE <<>>
    /\ raised' = None
    /\ pc' = "driver"
    /\ driver_runs' = driver_runs + 1
    /\ UNCHANGED <<py_major, code_cache, user_ns, sys_modules>>

\* what the driver leaves in the cache directory when it succeeds
Built(f) == Put(files, f.loc.module_path,
                [kind |-> "so", text |-> files[f.loc.f90_file].text,
                 flags |-> f.loc.f2py_args])

\* the driver returns, the module loads and its symbols are imported
FortranLoaded ==
    /\ pc = "driver"
    /\ frame.caller = "fortran"
    /\ LET fin    == RunF2pyFinally(frame)
           module == ModuleDict(frame.loc.module_name,
                                files[frame.loc.f90_file].text)
           imp    == ImportAll(module, user_ns, frame.verbosity)
           out    == OnReturn(output, frame.show_captured, frame.verbosity)
       IN  /\ sys_argv' = fin.sys_argv
           /\ cwd' = fin.cwd
           /\ files' = Built(frame)
           /\ code_cache' = CodeCacheAfterRun(code_cache, frame.loc, "return")
           /\ sys_modules' = sys_modules \cup {frame.loc.module_name}
           /\ frame' = [frame EXCEPT !.module = module]
           /\ user_ns' = imp.ns
           /\ output' = IF imp.printed THEN Append(out, "summary") ELSE out
    /\ driver_exit' = "return"
    /\ raised' = None
    /\ pc' = "idle"
    /\ UNCHANGED <<py_major, driver_runs, n_inv, req, prev,
                   log>>

\* the driver returns and imp.load_dynamic raises
FortranLoadFails ==
    /\ pc = "driver"
    /\ frame.caller = "fortran"
    /\ LET fin == RunF2pyFinally(frame)
       IN  /\ sys_argv' = fin.sys_argv
           /\ cwd' = fin.cwd
    /\ files' = Built(frame)
    /\ code_cache' = CodeCacheAfterRun(code_cache, frame.loc, "return")
    /\ output' = OnReturn(output, frame.show_captured, frame.verbosity)
    /\ driver_exit' = "return"
    /\ raised' = "ImportError"
    /\ pc' = "idle"
    /\ UNCHANGED <<py_major, frame, user_ns, sys_modules, driver_runs, n_inv,
                   req, prev,
                   log>>

----------------------------------------------------------------------------
(* %f2py_help *)

HelpRejected(line) ==
    /\ Begin("f2py_help", line, <<>>)
    /\ ~ParseHelpArgs(line).ok
    /\ raised' = "UsageError"
    /\ output' = <<>>
    /\ frame' = [NoFrame EXCEPT !.caller = "f2py_help"]
    /\ UNCHANGED <<py_major, cwd, sys_argv, pc, code_cache, files, user_ns,
                   sys_modules, driver_runs, log>>

\* no option given: none of the branches calls _run_f2py
HelpNothing(line) ==
    /\ Begin("f2py_help", line, <<>>)
    /\ ParseHelpArgs(line).ok
    /\ HelpArgv(ParseHelpArgs(line).args) = <<>>
    /\ raised' = None
    /\ output' = <<>>
    /\ frame' = [NoFrame EXCEPT !.caller = "f2py_help"]
    /\ UNCHANGED <<py_major, cwd, sys_argv, pc, code_cache, files, user_ns,
                   sys_modules, driver_runs, log>>

HelpRun(line) ==
    /\ Begin("f2py_help", line, <<>>)
    /\ ParseHelpArgs(line).ok
    /\ HelpArgv(ParseHelpArgs(line).args) # <<>>
    /\ LET argv == HelpArgv(ParseHelpArgs(line).args)
           run  == RunF2pyEnter(argv, sys_argv, cwd)
       IN  /\ frame' = [NoFrame EXCEPT !.caller = "f2py_help", !.argv = argv,
                                       !.show_captured = TRUE,
                                       !.old_argv = run.old_argv,
                                       !.old_cwd = run.old_cwd]
           /\ sys_argv' = run.sys_argv
           /\ cwd' = run.cwd
    /\ output' = <<>>
    /\ raised' = None
    /\ pc' = "driver"
    /\ driver_runs' = driver_runs + 1
    /\ UNCHANGED <<py_major, code_cache, files, user_ns, sys_modules, log>>

HelpReturns ==
    /\ pc = "driver"
    /\ frame.caller = "f2py_help"
    /\ LET fin == RunF2pyFinally(frame)
       IN  /\ sys_argv' = fin.sys_argv
           /\ cwd' = fin.cwd
    /\ output' = OnReturn(output, frame.show_captured, frame.verbosity)
    /\ driver_exit' = "return"
    /\ raised' = None
    /\ pc' = "idle"
    /\ UNCHANGED <<py_major, frame, code_cache, files, user_ns, sys_modules,
                   driver_runs, n_inv, req, prev,
                   log>>

----------------------------------------------------------------------------
(* The driver fails, under either magic *)

\* the driver ends through SystemExit
DriverSystemExit ==
    /\ pc = "driver"
    /\ LET fin == RunF2pyFinally(frame)
           h   == OnSystemExit(output)
       IN  /\ sys_argv' = fin.sys_argv
           /\ cwd' = fin.cwd
           /\ output' = h.output
           /\ raised' = h.raised
    /\ code_cache' = IF frame.caller = "fortran"
                     THEN CodeCacheAfterRun(code_cache, frame.loc, "SystemExit")
                     ELSE code_cache
    /\ driver_exit' = "SystemExit"
    /\ pc' = "idle"
    /\ UNCHANGED <<py_major, frame, files, user_ns, sys_modules, driver_runs,
                   n_inv, req, prev,
                   log>>

\* the driver raises any other exception: it passes through _run_f2py
DriverRaises ==
    /\ pc = "driver"
    /\ LET fin == RunF2pyFinally(frame)
       IN  /\ sys_argv' = fin.sys_argv
           /\ cwd' = fin.cwd
    /\ code_cache' = IF frame.caller = "fortran"
                     THEN CodeCacheAfterRun(code_cache, frame.loc, "exception")
                     ELSE code_cache
    /\ driver_exit' = "exception"
    /\ raised' = "Exception"
    /\ pc' = "idle"
    /\ UNCHANGED <<py_major, frame, files, user_ns, sys_modules, output,
                   driver_runs, n_inv, req, prev,
                   log>>

Next ==
    \/ \E line \in FortranLines, cell \in Cells : FortranRejected(line, cell)
    \/ \E line \in FortranLines, cell \in Cells : FortranNameError(line, cell)
    \/ \E line \in FortranLines, cell \in Cells, ord \in DictOrders :
          FortranBuild(line, cell, ord)
    \/ FortranLoaded
    \/ FortranLoadFails
    \/ \E line \in HelpLines : HelpRejected(line)
    \/ \E line \in HelpLines : HelpNothing(line)
    \/ \E line \in HelpLines : HelpRun(line)
    \/ HelpReturns
    \/ DriverSystemExit
    \/ DriverRaises

Spec == Init /\ [][Next]_vars

----------------------------------------------------------------------------
(* Properties *)

DriverFailures == {"SystemExit", "exception"}

\* a name that starts with two underscores
IsDunder(k) == Len(k) >= 2 /\ k[1] = "_" /\ k[2] = "_"

EndsWithNewline(c) == Len(c) > 0 /\ c[Len(c)] = NL

\* two cell texts that are equal, or differ only by one final newline that
\* the shorter one lacks
SameUpToFinalNewline(c, d) ==
    \/ c = d
    \/ ~EndsWithNewline(c) /\ d = Append(c, NL)
    \/ ~EndsWithNewline(d) /\ c = Append(d, NL)

Artifacts(fs) == {p \in DOMAIN fs : fs[p].kind = "so"}

\* an argument line the parser rejects: an option it does not know, or a
\* compiler that is not among the choices
BadLine(line) ==
    \E i \in DOMAIN Tokens(line) :
        LET t == Tokens(line)[i]
        IN  \/ t.opt \notin {"-v", "--verbosity", "--fcompiler", "--compiler",
                             "--f90flags", "--f77flags", "--opt", "--arch",
                             "--noopt", "--noarch", "--debug", "--link"}
            \/ t.opt = "--fcompiler" /\ t.val \notin allowed_fcompilers
            \/ t.opt = "--compiler" /\ t.val \notin allowed_compilers

\* C1: a %%fortran request that was just built and loaded with success, and
\* whose fingerprint is in _code_cache, does not call the driver when it is
\* issued again.
C1_SecondBuildSkipsDriver ==
    [][(/\ pc = "idle"
        /\ req.kind = "fortran"
        /\ driver_exit = "return"
        /\ raised = None
        /\ frame.loc.key \in DOMAIN code_cache
        /\ n_inv' = n_inv + 1
        /\ req' = req)
       => driver_runs' = driver_runs]_vars

\* C2: _run_f2py saves the working directory and sys.argv it is entered
\* with, the driver runs in the cache directory with sys.argv = ['f2py'] +
\* the arguments, and whatever way the driver ends the saved values are
\* back afterwards; an invocation that never reaches the driver leaves both
\* alone.
C2_CwdAndArgvRestored ==
    [][/\ (pc = "idle" /\ pc' = "driver")
            => /\ frame'.old_cwd = cwd
               /\ frame'.old_argv = sys_argv
               /\ cwd' = LibDir
               /\ sys_argv' = <<"f2py">> \o frame'.argv
       /\ (pc = "driver")
            => /\ pc' = "idle"
               /\ driver_exit' \in {"return", "SystemExit", "exception"}
               /\ cwd' = frame.old_cwd
               /\ sys_argv' = frame.old_argv
       /\ (pc = "idle" /\ pc' = "idle")
            => /\ cwd' = cwd
               /\ sys_argv' = sys_argv]_vars

W_C2_RestoredAfterException ==
    /\ pc = "idle"
    /\ driver_exit = "exception"
    /\ req.kind = "fortran"
    /\ cwd = SessionDir
    /\ sys_argv = SessionArgv

\* C3: a driver failure in %%fortran leaves _code_cache as it was, and the
\* same request issued again right after the failure calls the driver again.
C3_FailureNotCached ==
    [][/\ (pc = "driver" /\ frame.caller = "fortran"
           /\ driver_exit' \in DriverFailures)
            => code_cache' = code_cache
       /\ (pc = "idle" /\ req.kind = "fortran"
           /\ driver_exit \in DriverFailures
           /\ n_inv' = n_inv + 1 /\ req' = req)
            => /\ pc' = "driver"
               /\ driver_runs' = driver_runs + 1]_vars

W_C3_RetryAfterFailure ==
    /\ pc = "driver"
    /\ req.kind = "fortran"
    /\ prev = [kind |-> "fortran", exit |-> "SystemExit"]
    /\ Cardinality(log) = 1
    /\ driver_runs = 2
    /\ code_cache = EmptyMap

\* C4: when the driver ends through SystemExit in %%fortran, the captured
\* output is shown, the invocation ends with UsageError, the driver is not
\* called again, no module is loaded and the user namespace is untouched.
C4_FailureRaisesUsageError ==
    [][(pc = "driver" /\ frame.caller = "fortran" /\ driver_exit' = "SystemExit")
       => /\ output' = Append(output, "captured")
          /\ raised' = "UsageError"
          /\ pc' = "idle"
          /\ driver_runs' = driver_runs
          /\ sys_modules' = sys_modules
          /\ user_ns' = user_ns
          /\ frame'.module = EmptyMap]_vars

W_C4_UsageErrorAfterOutput ==
    /\ pc = "idle"
    /\ req.kind = "fortran"
    /\ driver_exit = "SystemExit"
    /\ raised = "UsageError"
    /\ output = <<"running", "captured">>

\* C5: the arguments the driver is called with by %%fortran are the flag
\* tokens (one --name per boolean flag set, then one --name=value per string
\* option given, then one --link-<resource> per resource in the order
\* given, nothing else) followed by -m <module name> -c <source path>.
C5_FlagTokens ==
    (pc = "driver" /\ frame.caller = "fortran") =>
        LET a    == frame.args
            toks == Tail(sys_argv)
            bs   == {BoolToken(k) : k \in {b \in BoolOpts : a[b]}}
            ks   == {KwToken(k, a[k]) : k \in {o \in StrOpts : a[o] # None}}
            nb   == Cardinality(bs)
            nk   == Cardinality(ks)
            nl   == Len(a.link)
        IN  /\ Head(sys_argv) = "f2py"
            /\ Len(toks) = nb + nk + nl + 4
            /\ {toks[i] : i \in 1..nb} = bs
            /\ {toks[i] : i \in (nb + 1)..(nb + nk)} = ks
            /\ \A i \in 1..nl : toks[nb + nk + i] = LinkToken(a.link[i])
            /\ SubSeq(toks, nb + nk + nl + 1, Len(toks))
                  = <<"-m", frame.loc.module_name, "-c", frame.loc.f90_file>>

W_C5_AllKindsOfFlags ==
    /\ pc = "driver"
    /\ frame.caller = "fortran"
    /\ frame.args.debug /\ frame.args.noopt
    /\ frame.args.opt # None /\ frame.args.f90flags # None
    /\ Len(frame.args.link) = 2

\* C6 as stated: requests with the same source text have the same module
\* name, and requests whose source texts differ have different module names.
C6_DifferentTextDifferentName ==
    \A r1, r2 \in log : (r1.cell = r2.cell) <=> (r1.module_name = r2.module_name)

\* C6 as amended: two requests have the same module name exactly when their
\* source texts are equal or differ only by a final newline that one lacks.
C6_NameFollowsNormalizedText ==
    \A r1, r2 \in log :
        SameUpToFinalNewline(r1.cell, r2.cell) <=> (r1.module_name = r2.module_name)

W_C6_TwoTextsOneName ==
    \E r1, r2 \in log : r1.cell # r2.cell /\ r1.module_name = r2.module_name

\* C7: when %%fortran builds and loads, every name of the module that does
\* not start with '__' is bound in the user namespace to the module's value,
\* the names that start with '__' are bound as before, and the summary is
\* printed exactly when verbosity > 0 and some name was injected.
C7_PublicSymbolsInjected ==
    [][(pc = "driver" /\ frame.caller = "fortran"
        /\ driver_exit' = "return" /\ raised' = None)
       => LET m == frame'.module
          IN  /\ DOMAIN m # {}
              /\ \A k \in DOMAIN m :
                    ~IsDunder(k) => k \in DOMAIN user_ns' /\ user_ns'[k] = m[k]
              /\ \A k \in (DOMAIN user_ns) \cup (DOMAIN user_ns') :
                    IsDunder(k) => /\ k \in DOMAIN user_ns
                                   /\ k \in DOMAIN user_ns'
                                   /\ user_ns'[k] = user_ns[k]
              /\ ("summary" \in Range(output'))
                    <=> (frame.verbosity > 0 /\ \E k \in DOMAIN m : ~IsDunder(k))]_vars

W_C7_InjectedWithSummary ==
    /\ pc = "idle"
    /\ req.kind = "fortran"
    /\ driver_exit = "return"
    /\ raised = None
    /\ <<"_", "g">> \in DOMAIN user_ns
    /\ user_ns[<<"_", "g">>] = frame.module[<<"_", "g">>]
    /\ "summary" \in Range(output)

C9_RejectedBeforeAnyEffect ==
    [][(n_inv' = n_inv + 1 /\ req'.kind = "fortran" /\ BadLine(req'.line))
       => /\ raised' = "UsageError"
          /\ pc' = "idle"
          /\ driver_runs' = driver_runs
          /\ files' = files
          /\ code_cache' = code_cache
          /\ cwd' = cwd
          /\ sys_argv' = sys_argv
          /\ user_ns' = user_ns]_vars

W_C9_RejectedAfterBuild ==
    /\ pc = "idle"
    /\ req.kind = "fortran"
    /\ req.line = "badchoice"
    /\ raised = "UsageError"
    /\ driver_runs = 1
    /\ Artifacts(files) # {}

\* C10: module name, source path and artifact path follow the normalized
\* cell text alone, whatever the flags: requests with the same text share
\* them, _code_cache holds one entry per text, and the artifact in the
\* shared slot is the one of the latest build.
C10_FlagsNotInFingerprint ==
    /\ \A r1, r2 \in log :
          SameUpToFinalNewline(r1.cell, r2.cell)
              => /\ r1.module_name = r2.module_name
                 /\ r1.f90_file = r2.f90_file
                 /\ r1.module_path = r2.module_path
    /\ \A k1, k2 \in DOMAIN code_cache : k1[1] = k2[1] => k1 = k2
    /\ Cardinality(Artifacts(files)) <= Cardinality({r.module_name : r \in log})
    /\ Cardinality(DOMAIN code_cache) <= Cardinality({r.module_name : r \in log})
    /\ (pc = "idle" /\ req.kind = "fortran" /\ driver_exit = "return")
          => /\ frame.loc.module_path \in Artifacts(files)
             /\ files[frame.loc.module_path].flags = frame.loc.f2py_args

W_C10_TwoFlagSetsOneSlot ==
    /\ pc = "idle"
    /\ req.kind = "fortran"
    /\ driver_exit = "return"
    /\ prev = [kind |-> "fortran", exit |-> "return"]
    /\ \E r1, r2 \in log : r1.line # r2.line /\ r1.cell = r2.cell
    /\ Cardinality(Artifacts(files)) = 1
    /\ Cardinality(DOMAIN code_cache) = 1
    /\ files[frame.loc.module_path].flags = frame.loc.f2py_args

====
